---- MODULE Spec2Model ----
\* The geospatial collection of controller/collection/collection.go:
\* three coordinated indexes (id-ordered tree, value-ordered tree, spatial
\* index), the field registry, the counters, and the snapshot codec.
EXTENDS Integers, Sequences, FiniteSets, TLC

\* ------------------------------------------------------------------ bounds

\* Longest field-name list and longest values list a caller passes.
MaxLen == 2
\* Field values are drawn from 0..MaxVal.
MaxVal == 1
\* Largest spare capacity (cap - len) of a slice handed in by a caller.
MaxSpare == 0
\* Largest cursor passed to a scan over a tree.
MaxCursor == 4
\* Largest cursor passed to a spatial query.
MaxGeoCursor == 1
\* Largest sparse level passed to a spatial query.
MaxSparse == 1

\* ------------------------------------------------------------------ domains

idOrdered == 0
valueOrdered == 1

\* Every string the model compares with Go's byte-wise <, in that order.
StrOrder == <<"", "a", "bb", "s">>
StrRank(s) == IF s = StrOrder[1] THEN 1 ELSE IF s = StrOrder[2] THEN 2 ELSE IF s = StrOrder[3] THEN 3 ELSE 4
StrLess(x, y) == StrRank(x) < StrRank(y)
\* len(id)
StrLen(s) == IF s = "" THEN 0 ELSE IF s = "bb" THEN 2 ELSE 1

Ids == {"a", "bb"}
FieldNames == {"f", "g"}
Vals == 0..MaxVal

\* Addresses of itemT values on the heap; 0 is the nil pointer.
Handles == 1..(2 * Cardinality(Ids))
NilHandle == 0

\* --- geojson.Object values
NilObject == [kind |-> "nil"]
sizeofPosition == 24
\* A Feature over a one-position geometry, with a bbox member, no properties.
FeatureObj == [kind |-> "Feature", geomPositions |-> 1, hasBBox |-> TRUE, propsLen |-> 0]
\* A geojson.String value.
StringObj == [kind |-> "String", s |-> "s"]
Objects == {FeatureObj, StringObj}

IsGeometry(o) == o.kind = "Feature"
PositionCount(o) ==
    IF o.kind = "Feature"
    THEN (IF o.hasBBox THEN 2 + o.geomPositions ELSE o.geomPositions)
    ELSE 0
Weight(o) ==
    IF o.kind = "Feature"
    THEN PositionCount(o) * sizeofPosition + o.propsLen
    ELSE StrLen(o.s)
String(o) == IF o.kind = "String" THEN o.s ELSE ""

\* --- Go slices of float64: nil flag, visible elements, capacity
NilSlice == [nil |-> TRUE, vals |-> <<>>, cap |-> 0]
Slice(vals, cap) == [nil |-> FALSE, vals |-> vals, cap |-> cap]
len(s) == Len(s.vals)
\* Go slices of string (field-name lists): nil flag and elements
NilNames == [nil |-> TRUE, vals |-> <<>>]
Names(vals) == [nil |-> FALSE, vals |-> vals]

SeqsUpTo(S, n) == UNION {[1..k -> S] : k \in 0..n}
\* The slices a caller can pass as `values`: nil, or up to MaxLen values.
ValueSlices ==
    {NilSlice} \cup
    {Slice(v, Len(v) + sp) : v \in SeqsUpTo(Vals, MaxLen) \ {<<>>}, sp \in 0..MaxSpare}
\* The slices a caller can pass as `fields`.
NameSlices == {NilNames} \cup {Names(n) : n \in SeqsUpTo(FieldNames, MaxLen)}
\* The (fields, values) pairs of the calls explored: any values with no
\* names; with names, a value for each, or one value too few.
FieldArgs ==
    {a \in NameSlices \X ValueSlices :
        \/ Len(a[1].vals) = 0
        \/ Len(a[2].vals) \in {Len(a[1].vals) - 1, Len(a[1].vals)}}

\* --- itemT
itemT(id, object, fields) == [id |-> id, object |-> object, fields |-> fields]
\* A heap cell no index points at.
FreeCell == itemT("", NilObject, NilSlice)

Less(i, item, ctx) ==
    IF ctx = idOrdered THEN StrLess(i.id, item.id)
    ELSE IF ctx = valueOrdered THEN
        LET i1 == String(i.object)
            i2 == String(item.object)
        IN  IF StrLess(i1, i2) THEN TRUE
            ELSE IF StrLess(i2, i1) THEN FALSE
            ELSE StrLess(i.id, item.id)
    ELSE FALSE

\* ------------------------------------------------------------------ btree
\* A btree.BTree is modelled by the sequence of its entries (item handles)
\* in ascending order of Less under the tree's ctx.

SeqRemoveAt(s, k) == [j \in 1..(Len(s) - 1) |-> IF j < k THEN s[j] ELSE s[j + 1]]
SeqInsertAt(s, k, e) ==
    [j \in 1..(Len(s) + 1) |-> IF j < k THEN s[j] ELSE IF j = k THEN e ELSE s[j - 1]]
SeqRange(s) == {s[k] : k \in 1..Len(s)}
MinOf(S) == CHOOSE x \in S : \A y \in S : x <= y
\* v bound to a name: F(v) with v evaluated once.
Bind(v, F(_)) == F(v)

\* Positions of the entries equal to key (neither Less than the other).
BTreePos(tree, heap, key, ctx) ==
    {k \in 1..Len(tree) :
        /\ ~Less(heap[tree[k]], key, ctx)
        /\ ~Less(key, heap[tree[k]], ctx)}

BTreeGet(tree, heap, key, ctx) ==
    Bind(BTreePos(tree, heap, key, ctx), LAMBDA pos :
        IF pos = {} THEN NilHandle ELSE tree[MinOf(pos)])

BTreeDelete(tree, heap, key, ctx) ==
    Bind(BTreePos(tree, heap, key, ctx), LAMBDA pos :
        IF pos = {} THEN [tree |-> tree, item |-> NilHandle]
        ELSE [tree |-> SeqRemoveAt(tree, MinOf(pos)), item |-> tree[MinOf(pos)]])

BTreeReplaceOrInsert(tree, heap, h, ctx) ==
    Bind(BTreePos(tree, heap, heap[h], ctx), LAMBDA pos :
        IF pos # {} THEN [tree EXCEPT ![MinOf(pos)] = h]
        ELSE SeqInsertAt(tree,
                Cardinality({k \in 1..Len(tree) : Less(heap[tree[k]], heap[h], ctx)}) + 1,
                h))

\* ------------------------------------------------------------------ state

VARIABLES
    items,      \* c.items: entries of the id-ordered tree
    values,     \* c.values: entries of the value-ordered tree
    index,      \* c.index: the items in the spatial index
    fieldMap,   \* c.fieldMap: field name -> slot
    weight, points, objects, nobjects,  \* the counters
    heap,       \* the itemT values the indexes point at
    panicked,   \* a call ended in a runtime panic
    live,       \* history: ids inserted and not removed since
    firstSeen   \* history: field names in order of first registration

vars == <<items, values, index, fieldMap, weight, points, objects, nobjects,
          heap, panicked, live, firstSeen>>

\* The Collection struct (with the heap its pointers refer to) as one value.
col == [items |-> items, values |-> values, index |-> index,
        fieldMap |-> fieldMap, weight |-> weight, points |-> points,
        objects |-> objects, nobjects |-> nobjects, heap |-> heap]

EmptyMap == [f \in {} |-> 0]

New == [items |-> <<>>, values |-> <<>>, index |-> {},
        fieldMap |-> EmptyMap, weight |-> 0, points |-> 0,
        objects |-> 0, nobjects |-> 0, heap |-> [h \in Handles |-> FreeCell]]

Count(c) == c.objects + c.nobjects

\* ------------------------------------------------------------------ heap

Referenced(c) == SeqRange(c.items) \cup SeqRange(c.values) \cup c.index
\* &itemT{...}: any address nothing points at; the model takes the id's own
\* cell when it is free and the lowest free one otherwise.
NewHandle(c, id) ==
    Bind(Handles \ Referenced(c), LAMBDA free :
        IF StrRank(id) - 1 \in free THEN StrRank(id) - 1 ELSE MinOf(free))
\* Garbage collection: a cell no index points at is unobservable.
Collect(c) ==
    Bind(Referenced(c), LAMBDA used :
        [c EXCEPT !.heap = [h \in Handles |-> IF h \in used THEN @[h] ELSE FreeCell]])

\* ------------------------------------------------------------------ remove / insert

\* Fault: remove that leaves objects and nobjects as they were.
removeKeepsCount(c, id) ==
    Bind(BTreeDelete(c.items, c.heap, itemT(id, NilObject, NilSlice), idOrdered),
         LAMBDA d :
    IF d.item = NilHandle THEN [c |-> c, item |-> NilHandle, ok |-> FALSE]
    ELSE
    Bind(c.heap[d.item], LAMBDA item :
        [c |-> [c EXCEPT
                !.items = d.tree,
                !.index = @ \ {d.item},
                !.values = BTreeDelete(@, c.heap, item, valueOrdered).tree,
                !.weight = (@ - len(item.fields) * 8)
                           - (Weight(item.object) + StrLen(item.id)),
                !.points = @ - PositionCount(item.object)],
         item |-> d.item, ok |-> TRUE]))

remove(c, id) ==
    Bind(BTreeDelete(c.items, c.heap, itemT(id, NilObject, NilSlice), idOrdered),
         LAMBDA d :
    IF d.item = NilHandle THEN [c |-> c, item |-> NilHandle, ok |-> FALSE]
    ELSE
    Bind(c.heap[d.item], LAMBDA item :
    Bind(IsGeometry(item.object), LAMBDA geo :
        [c |-> [c EXCEPT
                !.items = d.tree,
                !.index = IF geo THEN @ \ {d.item} ELSE @,
                !.objects = IF geo THEN @ - 1 ELSE @,
                !.values = IF geo THEN @
                           ELSE BTreeDelete(@, c.heap, item, valueOrdered).tree,
                !.nobjects = IF geo THEN @ ELSE @ - 1,
                !.weight = (@ - len(item.fields) * 8)
                           - (Weight(item.object) + StrLen(item.id)),
                !.points = @ - PositionCount(item.object)],
         item |-> d.item, ok |-> TRUE])))

\* Fault: insert that puts every object in the spatial index.
insertAllSpatial(c, id, obj) ==
    Bind(NewHandle(c, id), LAMBDA h :
    Bind([c.heap EXCEPT ![h] = itemT(id, obj, NilSlice)], LAMBDA hp :
        [c |-> [c EXCEPT
                !.heap = hp,
                !.index = @ \cup {h},
                !.objects = @ + 1,
                !.items = BTreeReplaceOrInsert(@, hp, h, idOrdered),
                !.weight = @ + Weight(obj) + StrLen(id),
                !.points = @ + PositionCount(obj)],
         item |-> h]))

insert(c, id, obj) ==
    Bind(NewHandle(c, id), LAMBDA h :
    Bind([c.heap EXCEPT ![h] = itemT(id, obj, NilSlice)], LAMBDA hp :
    Bind(IsGeometry(obj), LAMBDA geo :
        [c |-> [c EXCEPT
                !.heap = hp,
                !.index = IF geo THEN @ \cup {h} ELSE @,
                !.objects = IF geo THEN @ + 1 ELSE @,
                !.values = IF geo THEN @
                           ELSE BTreeReplaceOrInsert(@, hp, h, valueOrdered),
                !.nobjects = IF geo THEN @ ELSE @ + 1,
                !.items = BTreeReplaceOrInsert(@, hp, h, idOrdered),
                !.weight = @ + Weight(obj) + StrLen(id),
                !.points = @ + PositionCount(obj)],
         item |-> h])))

\* ------------------------------------------------------------------ setField

\* append(s, 0): in place while capacity lasts, else into a new, larger array.
GrowCap(cap) == IF cap = 0 THEN 1 ELSE 2 * cap
\* Fault: append(s, 1).
AppendOne(s) ==
    IF len(s) < s.cap THEN Slice(Append(s.vals, 1), s.cap)
    ELSE Slice(Append(s.vals, 1), GrowCap(s.cap))
AppendZero(s) ==
    IF len(s) < s.cap THEN Slice(Append(s.vals, 0), s.cap)
    ELSE Slice(Append(s.vals, 0), GrowCap(s.cap))
RECURSIVE GrowToOneMore(_, _)
\* Fault: for idx+1 >= len(item.fields) { ... }, one slot too many.
GrowToOneMore(s, idx) == IF idx + 1 >= len(s) THEN GrowToOneMore(AppendZero(s), idx) ELSE s
RECURSIVE GrowTo(_, _)
\* for idx >= len(item.fields) { item.fields = append(item.fields, 0) }
GrowTo(s, idx) == IF idx >= len(s) THEN GrowTo(AppendZero(s), idx) ELSE s

\* Fault: setField that leaves c.weight as it was.
setFieldKeepsWeight(c, h, field, value) ==
    Bind(field \in DOMAIN c.fieldMap, LAMBDA known :
    Bind(IF known THEN c.fieldMap[field] ELSE Cardinality(DOMAIN c.fieldMap),
         LAMBDA idx :
    Bind(c.heap[h].fields, LAMBDA f0 :
    Bind(GrowTo(f0, idx), LAMBDA f1 :
        [c |-> [c EXCEPT
                !.fieldMap = IF known THEN @ ELSE @ @@ (field :> idx),
                !.heap[h].fields = [f1 EXCEPT !.vals[idx + 1] = value]],
         updated |-> f1.vals[idx + 1] # value,
         idx |-> idx,
         realloc |-> f1.cap # f0.cap]))))

\* Fault: setField that gives every new name slot 0.
setFieldSlotZero(c, h, field, value) ==
    Bind(field \in DOMAIN c.fieldMap, LAMBDA known :
    Bind(IF known THEN c.fieldMap[field] ELSE 0, LAMBDA idx :
    Bind(c.heap[h].fields, LAMBDA f0 :
    Bind(GrowTo(f0, idx), LAMBDA f1 :
        [c |-> [c EXCEPT
                !.fieldMap = IF known THEN @ ELSE @ @@ (field :> idx),
                !.weight = (@ - len(f0) * 8) + len(f1) * 8,
                !.heap[h].fields = [f1 EXCEPT !.vals[idx + 1] = value]],
         updated |-> f1.vals[idx + 1] # value,
         idx |-> idx,
         realloc |-> f1.cap # f0.cap]))))

\* Fault: setField that compares the slot with value after writing it.
setFieldComparesLate(c, h, field, value) ==
    Bind(field \in DOMAIN c.fieldMap, LAMBDA known :
    Bind(IF known THEN c.fieldMap[field] ELSE Cardinality(DOMAIN c.fieldMap),
         LAMBDA idx :
    Bind(c.heap[h].fields, LAMBDA f0 :
    Bind(GrowTo(f0, idx), LAMBDA f1 :
        [c |-> [c EXCEPT
                !.fieldMap = IF known THEN @ ELSE @ @@ (field :> idx),
                !.weight = (@ - len(f0) * 8) + len(f1) * 8,
                !.heap[h].fields = [f1 EXCEPT !.vals[idx + 1] = value]],
         updated |-> FALSE,
         idx |-> idx,
         realloc |-> f1.cap # f0.cap]))))

\* idx: the slot written; realloc: the field vector moved to a new array.
setField(c, h, field, value) ==
    Bind(field \in DOMAIN c.fieldMap, LAMBDA known :
    Bind(IF known THEN c.fieldMap[field] ELSE Cardinality(DOMAIN c.fieldMap),
         LAMBDA idx :
    Bind(c.heap[h].fields, LAMBDA f0 :
    Bind(GrowTo(f0, idx), LAMBDA f1 :
        [c |-> [c EXCEPT
                !.fieldMap = IF known THEN @ ELSE @ @@ (field :> idx),
                !.weight = (@ - len(f0) * 8) + len(f1) * 8,
                !.heap[h].fields = [f1 EXCEPT !.vals[idx + 1] = value]],
         updated |-> f1.vals[idx + 1] # value,
         idx |-> idx,
         realloc |-> f1.cap # f0.cap]))))

\* ------------------------------------------------------------------ ReplaceOrInsert

RECURSIVE FieldLoop(_, _, _, _, _)
\* for i, field := range fields { c.setField(nitem, field, fvalues[i]) }
\* st.old is the caller's view of oldFields, st.shared whether nitem.fields
\* still lives in the same array; fvalues[i] past the end of fvalues panics.
FieldLoop(st, h, fields, fvalues, i) ==
    IF i > Len(fields.vals) THEN st
    ELSE IF i > len(fvalues) THEN [st EXCEPT !.panic = TRUE]
    ELSE
    Bind(setField(st.c, h, fields.vals[i], fvalues.vals[i]), LAMBDA r :
    Bind(st.shared /\ ~r.realloc, LAMBDA shared :
        FieldLoop([c |-> r.c,
                   old |-> IF shared /\ r.idx < len(st.old)
                           THEN [st.old EXCEPT !.vals[r.idx + 1] = fvalues.vals[i]]
                           ELSE st.old,
                   shared |-> shared,
                   panic |-> FALSE],
                  h, fields, fvalues, i + 1)))

ReplaceOrInsertOp(c, id, obj, fields, fvalues) ==
    Bind(remove(c, id), LAMBDA r1 :
    Bind(IF r1.ok THEN r1.c.heap[r1.item] ELSE FreeCell, LAMBDA oldItem :
    Bind(insert(r1.c, id, obj), LAMBDA r2 :
    Bind(r2.item, LAMBDA h :
    Bind(IF r1.ok
         THEN [r2.c EXCEPT !.heap[h].fields = oldItem.fields,
                           !.weight = @ + len(oldItem.fields) * 8]
         ELSE r2.c, LAMBDA c3 :
        IF fields.nil /\ len(fvalues) > 0
        THEN \* directly set the field values, update weight
             [c |-> Collect([c3 EXCEPT
                        !.weight = (@ - len(c3.heap[h].fields) * 8) + len(fvalues) * 8,
                        !.heap[h].fields = fvalues]),
              oldObject |-> oldItem.object, oldFields |-> oldItem.fields,
              newFields |-> fvalues, panic |-> FALSE]
        ELSE \* map field name to value
             Bind(FieldLoop([c |-> c3, old |-> oldItem.fields, shared |-> r1.ok,
                             panic |-> FALSE], h, fields, fvalues, 1), LAMBDA st :
                [c |-> Collect(st.c), oldObject |-> oldItem.object, oldFields |-> st.old,
                 newFields |-> st.c.heap[h].fields, panic |-> st.panic]))))))

\* ------------------------------------------------------------------ Remove / Get / SetField

RemoveOp(c, id) ==
    Bind(remove(c, id), LAMBDA r :
        IF ~r.ok THEN [c |-> c, obj |-> NilObject, fields |-> NilSlice, ok |-> FALSE]
        ELSE [c |-> Collect(r.c), obj |-> r.c.heap[r.item].object,
              fields |-> r.c.heap[r.item].fields, ok |-> TRUE])

get(c, id) ==
    Bind(BTreeGet(c.items, c.heap, itemT(id, NilObject, NilSlice), idOrdered),
         LAMBDA i :
        IF i = NilHandle THEN [obj |-> NilObject, fields |-> NilSlice, ok |-> FALSE]
        ELSE [obj |-> c.heap[i].object, fields |-> c.heap[i].fields, ok |-> TRUE])

\* Fault: SetField that gives the name a slot before it looks the id up.
SetFieldRegistersFirst(c, id, field, value) ==
    Bind(BTreeGet(c.items, c.heap, itemT(id, NilObject, NilSlice), idOrdered),
         LAMBDA i :
        IF i = NilHandle
        THEN [c |-> [c EXCEPT !.fieldMap =
                        IF field \in DOMAIN @ THEN @
                        ELSE @ @@ (field :> Cardinality(DOMAIN @))],
              obj |-> NilObject, fields |-> NilSlice,
              updated |-> FALSE, ok |-> FALSE]
        ELSE Bind(setField(c, i, field, value), LAMBDA r :
                [c |-> r.c, obj |-> r.c.heap[i].object, fields |-> r.c.heap[i].fields,
                 updated |-> r.updated, ok |-> TRUE]))

SetFieldOp(c, id, field, value) ==
    Bind(BTreeGet(c.items, c.heap, itemT(id, NilObject, NilSlice), idOrdered),
         LAMBDA i :
        IF i = NilHandle
        THEN [c |-> c, obj |-> NilObject, fields |-> NilSlice,
              updated |-> FALSE, ok |-> FALSE]
        ELSE Bind(setField(c, i, field, value), LAMBDA r :
                [c |-> r.c, obj |-> r.c.heap[i].object, fields |-> r.c.heap[i].fields,
                 updated |-> r.updated, ok |-> TRUE]))

\* FieldArr: arr[i] = field for every (field, i) of the map; "" where no name has slot i.
FieldArr(c) ==
    [k \in 1..Cardinality(DOMAIN c.fieldMap) |->
        IF \E f \in DOMAIN c.fieldMap : c.fieldMap[f] = k - 1
        THEN CHOOSE f \in DOMAIN c.fieldMap : c.fieldMap[f] = k - 1
        ELSE ""]

\* ------------------------------------------------------------------ snapshot codec

\* --- JSON values
JAbsent == [j |-> "absent"]
JNull == [j |-> "null"]
JArray(elems) == [j |-> "array", elems |-> elems]
\* A []byte travels as a base64 string.
JBase64(bytes) == [j |-> "string", base64 |-> bytes]

\* --- documents ([]byte arguments of UnmarshalJSON)
NilBytes == [kind |-> "nil"]
EmptyBytes == [kind |-> "empty"]
\* {"rows": rows, "fields": fields}; a member may be absent.
JsonDoc(rows, fields) == [kind |-> "json", rows |-> rows, fields |-> fields]
JsonRow(id, obj, vals) == [id |-> id, obj |-> obj, values |-> vals]

\* --- object encodings
NilObjBytes == [type |-> "nil"]
GarbageObjBytes == [type |-> "garbage"]
\* Feature.MarshalJSON / Feature.JSON: type, geometry, bbox when set,
\* properties when not empty.
FeatureJSON(g) ==
    [type |-> "Feature", geometry |-> g.geomPositions,
     bbox |-> g.hasBBox, properties |-> g.propsLen]
ObjMarshalJSON(o) ==
    IF o.kind = "Feature" THEN FeatureJSON(o) ELSE [type |-> "String", text |-> o.s]
\* geojson.ObjectAuto: the object the bytes encode, or an error.
ObjectAuto(bytes) ==
    IF bytes.type = "Feature"
    THEN [obj |-> [kind |-> "Feature", geomPositions |-> bytes.geometry,
                   hasBBox |-> bytes.bbox, propsLen |-> bytes.properties],
          err |-> ""]
    ELSE IF bytes.type = "String"
    THEN [obj |-> [kind |-> "String", s |-> bytes.text], err |-> ""]
    ELSE [obj |-> NilObject, err |-> "invalid object"]

\* --- Row and Portable values
Row(id, obj, vals) == [Id |-> id, Obj |-> obj, Values |-> vals]
ZeroRow == Row("", NilObjBytes, NilSlice)

\* json.Marshal of a Row / of the Portable: a nil slice is null.
MarshalRow(row) ==
    JsonRow(row.Id,
            IF row.Obj = NilObjBytes THEN JNull ELSE JBase64(row.Obj),
            IF row.Values.nil THEN JNull ELSE JArray(row.Values.vals))
MarshalPortable(portable) ==
    JsonDoc(JArray([k \in 1..Len(portable.Rows) |-> MarshalRow(portable.Rows[k])]),
            IF portable.Fields.nil THEN JNull ELSE JArray(portable.Fields.vals))

\* json.Unmarshal into a Row / into the Portable: null and an absent member
\* leave the destination as it was; spare is the capacity the decoder leaves
\* behind the decoded elements.
UnmarshalRow(jrow, spare) ==
    Row(jrow.id,
        IF jrow.obj.j = "string" THEN jrow.obj.base64 ELSE NilObjBytes,
        IF jrow.values.j = "array"
        THEN Slice(jrow.values.elems, Len(jrow.values.elems) + spare)
        ELSE NilSlice)
UnmarshalPortable(b, spare) ==
    IF b.kind # "json" THEN [Rows |-> <<>>, Fields |-> NilNames]
    ELSE
    [Rows |-> IF b.rows.j = "array"
              THEN [k \in 1..Len(b.rows.elems) |-> UnmarshalRow(b.rows.elems[k], spare)]
              ELSE <<>>,
     Fields |-> IF b.fields.j = "array" THEN Names(b.fields.elems) ELSE NilNames]

\* MarshalJSON: Count() rows, filled by an ascending Scan that stops after
\* Count() items; rows the Scan does not reach stay zero.
MarshalJSONOp(c) ==
    MarshalPortable(
        [Rows |-> [k \in 1..Count(c) |->
                    IF k <= Len(c.items)
                    THEN Row(c.heap[c.items[k]].id,
                             ObjMarshalJSON(c.heap[c.items[k]].object),
                             c.heap[c.items[k]].fields)
                    ELSE ZeroRow],
         Fields |-> Names(FieldArr(c))])

RECURSIVE RowLoopSkipsBad(_, _, _)
\* Fault: the row loop goes on after a row whose obj does not parse.
RowLoopSkipsBad(st, portable, i) ==
    IF i > Len(portable.Rows) THEN st
    ELSE
    Bind(portable.Rows[i], LAMBDA row :
    Bind(ObjectAuto(row.Obj), LAMBDA o :
        IF o.err # "" THEN RowLoopSkipsBad([st EXCEPT !.err = o.err], portable, i + 1)
        ELSE Bind(ReplaceOrInsertOp(st.c, row.Id, o.obj, portable.Fields, row.Values),
                  LAMBDA r :
                IF r.panic THEN [c |-> r.c, err |-> "", panic |-> TRUE,
                                 applied |-> st.applied + 1]
                ELSE RowLoopSkipsBad([c |-> r.c, err |-> st.err, panic |-> FALSE,
                                      applied |-> st.applied + 1], portable, i + 1))))

RECURSIVE RowLoop(_, _, _)
\* for i := range portable.Rows { ... }; st.applied counts the rows passed
\* to ReplaceOrInsert.
RowLoop(st, portable, i) ==
    IF i > Len(portable.Rows) THEN st
    ELSE
    Bind(portable.Rows[i], LAMBDA row :
    Bind(ObjectAuto(row.Obj), LAMBDA o :
        IF o.err # "" THEN [st EXCEPT !.err = o.err]
        ELSE Bind(ReplaceOrInsertOp(st.c, row.Id, o.obj, portable.Fields, row.Values),
                  LAMBDA r :
                IF r.panic THEN [c |-> r.c, err |-> "", panic |-> TRUE,
                                 applied |-> st.applied + 1]
                ELSE RowLoop([c |-> r.c, err |-> "", panic |-> FALSE,
                              applied |-> st.applied + 1], portable, i + 1))))

\* Fault: UnmarshalJSON that drops the error of json.Unmarshal.
UnmarshalJSONDropsErr(c, b, spare) ==
    IF b.kind = "nil"
    THEN [c |-> c, err |-> "No bytes were input", panic |-> FALSE, applied |-> 0]
    ELSE RowLoop([c |-> c, err |-> "", panic |-> FALSE, applied |-> 0],
                 UnmarshalPortable(b, spare), 1)

UnmarshalJSONOp(c, b, spare) ==
    IF b.kind = "nil"
    THEN [c |-> c, err |-> "No bytes were input", panic |-> FALSE, applied |-> 0]
    ELSE IF b.kind # "json"
    THEN [c |-> c, err |-> "unexpected end of JSON input", panic |-> FALSE, applied |-> 0]
    ELSE RowLoop([c |-> c, err |-> "", panic |-> FALSE, applied |-> 0],
                 UnmarshalPortable(b, spare), 1)

\* The documents handed to UnmarshalJSON, besides a snapshot just taken.
FeatureRow(id, vals) == JsonRow(id, JBase64(FeatureJSON(FeatureObj)), vals)
StringRow(id, vals) == JsonRow(id, JBase64(ObjMarshalJSON(StringObj)), vals)
Docs ==
    { NilBytes,
      EmptyBytes,
      JsonDoc(JAbsent, JAbsent),
      JsonDoc(JArray(<<FeatureRow("a", JArray(<<1>>))>>), JAbsent),
      JsonDoc(JArray(<<StringRow("bb", JNull)>>), JArray(<<>>)),
      JsonDoc(JArray(<<FeatureRow("a", JArray(<<1>>)), StringRow("bb", JArray(<<0>>))>>),
              JArray(<<"g">>)),
      JsonDoc(JArray(<<StringRow("a", JArray(<<1>>)),
                       JsonRow("bb", JBase64(GarbageObjBytes), JNull)>>),
              JArray(<<"f">>)) }

\* ------------------------------------------------------------------ scans

\* --- btree traversals: the entries handed to the iterator, in order
Reverse(s) == [k \in 1..Len(s) |-> s[Len(s) + 1 - k]]
\* The entries of tree that satisfy Keep, in the order of tree.
SelectEntries(tree, Keep(_)) ==
    Bind({k \in 1..Len(tree) : Keep(tree[k])}, LAMBDA kept :
        [j \in 1..Cardinality(kept) |->
            tree[CHOOSE k \in kept : Cardinality({m \in kept : m < k}) = j - 1]])
Ascend(tree) == tree
Descend(tree) == Reverse(tree)
\* AscendRange: the entries in [greaterOrEqual, lessThan), ascending.
AscendRange(tree, heap0, greaterOrEqual, lessThan, ctx) ==
    SelectEntries(tree, LAMBDA h : ~Less(heap0[h], greaterOrEqual, ctx)
                                   /\ Less(heap0[h], lessThan, ctx))
\* DescendRange: the entries in [lessOrEqual, greaterThan), descending.
DescendRange(tree, heap0, lessOrEqual, greaterThan, ctx) ==
    Reverse(SelectEntries(tree, LAMBDA h : ~Less(lessOrEqual, heap0[h], ctx)
                                           /\ Less(greaterThan, heap0[h], ctx)))
AscendGreaterOrEqual(tree, heap0, pivot, ctx) ==
    SelectEntries(tree, LAMBDA h : ~Less(heap0[h], pivot, ctx))
DescendLessOrEqual(tree, heap0, pivot, ctx) ==
    Reverse(SelectEntries(tree, LAMBDA h : ~Less(pivot, heap0[h], ctx)))

\* --- the iter closure of the five scans
\* The iterator passed by the caller is the set goOn of the ids on which it
\* returns true; on every other id it returns false.
\* st.i is i, st.visited the ids the iterator was invoked on, in order;
\* entries is what the tree hands over until iter returns false.
RECURSIVE IterateSkipsOneMore(_, _, _, _, _, _)
\* Fault: iter that tests i > cursor.
IterateSkipsOneMore(heap0, entries, k, st, cursor, goOn) ==
    IF k > Len(entries) THEN st
    ELSE IF st.i > cursor
    THEN IF heap0[entries[k]].id \in goOn
         THEN IterateSkipsOneMore(heap0, entries, k + 1,
                      [visited |-> Append(st.visited, heap0[entries[k]].id),
                       i |-> st.i + 1], cursor, goOn)
         ELSE [visited |-> Append(st.visited, heap0[entries[k]].id), i |-> st.i + 1]
    ELSE IterateSkipsOneMore(heap0, entries, k + 1, [st EXCEPT !.i = @ + 1], cursor, goOn)
RECURSIVE Iterate(_, _, _, _, _, _)
Iterate(heap0, entries, k, st, cursor, goOn) ==
    IF k > Len(entries) THEN st
    ELSE IF st.i >= cursor
    THEN IF heap0[entries[k]].id \in goOn
         THEN Iterate(heap0, entries, k + 1,
                      [visited |-> Append(st.visited, heap0[entries[k]].id),
                       i |-> st.i + 1], cursor, goOn)
         ELSE [visited |-> Append(st.visited, heap0[entries[k]].id), i |-> st.i + 1]
    ELSE Iterate(heap0, entries, k + 1, [st EXCEPT !.i = @ + 1], cursor, goOn)
\* var i uint64; var active = true
IterStart == [visited |-> <<>>, i |-> 0]
\* A geojson.String value.
StringOf(str) == [kind |-> "String", s |-> str]

ScanOp(c, cursor, desc, goOn) ==
    Iterate(c.heap, IF desc THEN Descend(c.items) ELSE Ascend(c.items),
            1, IterStart, cursor, goOn)

ScanRangeOp(c, cursor, start, end, desc, goOn) ==
    Iterate(c.heap,
            IF desc
            THEN DescendRange(c.items, c.heap, itemT(start, NilObject, NilSlice),
                              itemT(end, NilObject, NilSlice), idOrdered)
            ELSE AscendRange(c.items, c.heap, itemT(start, NilObject, NilSlice),
                             itemT(end, NilObject, NilSlice), idOrdered),
            1, IterStart, cursor, goOn)

SearchValuesOp(c, cursor, desc, goOn) ==
    Iterate(c.heap, IF desc THEN Descend(c.values) ELSE Ascend(c.values),
            1, IterStart, cursor, goOn)

SearchValuesRangeOp(c, cursor, start, end, desc, goOn) ==
    Iterate(c.heap,
            IF desc
            THEN DescendRange(c.values, c.heap, itemT("", StringOf(start), NilSlice),
                              itemT("", StringOf(end), NilSlice), valueOrdered)
            ELSE AscendRange(c.values, c.heap, itemT("", StringOf(start), NilSlice),
                             itemT("", StringOf(end), NilSlice), valueOrdered),
            1, IterStart, cursor, goOn)

ScanGreaterOrEqualOp(c, id, cursor, desc, goOn) ==
    Iterate(c.heap,
            IF desc
            THEN DescendLessOrEqual(c.items, c.heap, itemT(id, NilObject, NilSlice), idOrdered)
            ELSE AscendGreaterOrEqual(c.items, c.heap, itemT(id, NilObject, NilSlice),
                                      idOrdered),
            1, IterStart, cursor, goOn)

\* ------------------------------------------------------------------ spatial queries

\* --- geometry: positions on an integer grid, X = lon, Y = lat
Position(x, y, z) == [X |-> x, Y |-> y, Z |-> z]
BBox(min, max) == [Min |-> min, Max |-> max]
\* A Feature over a Point geometry at (x, y, 0), without a bbox member.
PointObj(x, y) ==
    [kind |-> "Feature", geomPositions |-> 1, hasBBox |-> FALSE, propsLen |-> 0,
     at |-> Position(x, y, 0)]
\* A polygon target: the grid positions it covers and its bounding box.
PolygonObj(region, bbox) == [kind |-> "Polygon", region |-> region, bbox |-> bbox]
CalculatedBBox(o) == IF o.kind = "Polygon" THEN o.bbox ELSE BBox(o.at, o.at)
\* The position lies in the bbox, in the X/Y plane.
InsideXY(p, bbox) ==
    /\ bbox.Min.X <= p.X /\ p.X <= bbox.Max.X
    /\ bbox.Min.Y <= p.Y /\ p.Y <= bbox.Max.Y
\* The predicates of a point object.
WithinBBox(o, bbox) == InsideXY(o.at, bbox)
IntersectsBBox(o, bbox) == InsideXY(o.at, bbox)
ObjWithin(o, target) == <<o.at.X, o.at.Y>> \in target.region
ObjIntersects(o, target) == <<o.at.X, o.at.Y>> \in target.region
ObjNearby(o, center, meters) ==
    (o.at.X - center.X) * (o.at.X - center.X)
        + (o.at.Y - center.Y) * (o.at.Y - center.Y) <= meters * meters
\* geojson.BBoxesFromCenter: the box of side 2*meters around the center.
BBoxesFromCenter(lat, lon, meters) ==
    BBox(Position(lon - meters, lat - meters, 0), Position(lon + meters, lat + meters, 0))

\* The 2^sparse x 2^sparse tiles of bbox, row by row from Min.Y, each row
\* from Min.X, with the Z bounds given; no tile along an axis of extent 0.
Tiles(bbox, sparse, minZ, maxZ) ==
    Bind(2 ^ sparse, LAMBDA split :
    Bind((bbox.Max.X - bbox.Min.X) \div split, LAMBDA xpart :
    Bind((bbox.Max.Y - bbox.Min.Y) \div split, LAMBDA ypart :
    Bind(IF bbox.Min.X < bbox.Max.X THEN split ELSE 0, LAMBDA nx :
    Bind(IF bbox.Min.Y < bbox.Max.Y THEN split ELSE 0, LAMBDA ny :
        [t \in 1..(nx * ny) |->
            BBox(Position(bbox.Min.X + ((t - 1) % nx) * xpart,
                          bbox.Min.Y + ((t - 1) \div nx) * ypart, minZ),
                 Position(bbox.Min.X + ((t - 1) % nx) * xpart + xpart,
                          bbox.Min.Y + ((t - 1) \div nx) * ypart + ypart, maxZ))])))))
\* BBox.Sparse: the bbox itself for 0, else its tiles.
Sparse(bbox, sparse) ==
    IF sparse = 0 THEN <<bbox>> ELSE Tiles(bbox, sparse, bbox.Min.Z, bbox.Max.Z)

\* --- index.Search
\* The items of the spatial index whose position the 3D box holds, in the
\* order the index hands them over (here: by id).
SearchEntries(c, bbox) ==
    SelectEntries(c.items, LAMBDA h :
        /\ h \in c.index
        /\ InsideXY(c.heap[h].object.at, bbox)
        /\ bbox.Min.Z <= c.heap[h].object.at.Z
        /\ c.heap[h].object.at.Z <= bbox.Max.Z)

RECURSIVE SearchIterateIgnoresStop(_, _, _, _, _, _, _, _)
\* Fault: the callback handed to index.Search returns true whatever the
\* closure returned, so the search never stops early.
SearchIterateIgnoresStop(heap0, entries, k, st, cursor, refined, stopOnTrue, goOn) ==
    IF k > Len(entries) THEN st
    ELSE IF st.i < cursor \/ entries[k] \notin refined
    THEN SearchIterateIgnoresStop(heap0, entries, k + 1, [st EXCEPT !.i = @ + 1],
                                  cursor, refined, stopOnTrue, goOn)
    ELSE SearchIterateIgnoresStop(heap0, entries, k + 1,
                                  [visited |-> Append(st.visited, heap0[entries[k]].id),
                                   i |-> st.i + 1],
                                  cursor, refined, stopOnTrue, goOn)
\* index.Search with the callback of geoSearch around the query's closure:
\* an entry outside refined is passed over; on a refined entry the iterator
\* is invoked, and the search goes on iff it returns true (stopOnTrue
\* FALSE: the non-sparse closures) or iff it returns false (stopOnTrue
\* TRUE: the sparse closures). The first cursor entries are skipped.
RECURSIVE SearchIterate(_, _, _, _, _, _, _, _)
SearchIterate(heap0, entries, k, st, cursor, refined, stopOnTrue, goOn) ==
    IF k > Len(entries) THEN st
    ELSE IF st.i < cursor \/ entries[k] \notin refined
    THEN SearchIterate(heap0, entries, k + 1, [st EXCEPT !.i = @ + 1],
                       cursor, refined, stopOnTrue, goOn)
    ELSE IF (heap0[entries[k]].id \in goOn) = stopOnTrue
    THEN [visited |-> Append(st.visited, heap0[entries[k]].id), i |-> st.i + 1]
    ELSE SearchIterate(heap0, entries, k + 1,
                       [visited |-> Append(st.visited, heap0[entries[k]].id),
                        i |-> st.i + 1],
                       cursor, refined, stopOnTrue, goOn)

\* c.geoSearch(cursor, bbox, closure); visited is the log so far, refined
\* the items on which the test the closure makes before it invokes the
\* iterator holds.
geoSearch(c, cursor, bbox, refined, stopOnTrue, goOn, visited) ==
    SearchIterate(c.heap, SearchEntries(c, bbox), 1, [visited |-> visited, i |-> 0],
                  cursor, refined, stopOnTrue, goOn)

\* TRUE, with the log evaluated: the tile loops evaluate the log at every
\* turn instead of nesting one pending evaluation per tile.
Evaluated(log) == Len(log) >= 0

RECURSIVE NearbyTilesHalts(_, _, _, _, _, _, _, _, _, _)
\* Fault: the tile loop of Nearby ends once the iterator has returned true.
NearbyTilesHalts(c, bboxes, k, visited, cursor, center, meters, minZ, maxZ, goOn) ==
    IF k > Len(bboxes) \/ (visited # <<>> /\ visited[Len(visited)] \in goOn) THEN visited
    ELSE NearbyTilesHalts(c, bboxes, k + 1,
             geoSearch(c, cursor,
                       BBox([bboxes[k].Min EXCEPT !.Z = minZ],
                            [bboxes[k].Max EXCEPT !.Z = maxZ]),
                       {h \in c.index : ObjNearby(c.heap[h].object, center, meters)},
                       TRUE, goOn, visited).visited,
             cursor, center, meters, minZ, maxZ, goOn)

RECURSIVE NearbyTiles(_, _, _, _, _, _, _, _, _, _)
\* Nearby: for _, bbox := range bboxes { ... }
NearbyTiles(c, bboxes, k, visited, cursor, center, meters, minZ, maxZ, goOn) ==
    IF k > Len(bboxes) \/ ~Evaluated(visited) THEN visited
    ELSE NearbyTiles(c, bboxes, k + 1,
             geoSearch(c, cursor,
                       BBox([bboxes[k].Min EXCEPT !.Z = minZ],
                            [bboxes[k].Max EXCEPT !.Z = maxZ]),
                       {h \in c.index : ObjNearby(c.heap[h].object, center, meters)},
                       TRUE, goOn, visited).visited,
             cursor, center, meters, minZ, maxZ, goOn)

NearbyOp(c, cursor, sparse, lat, lon, meters, minZ, maxZ, goOn) ==
    Bind(Position(lon, lat, 0), LAMBDA center :
    Bind(BBoxesFromCenter(lat, lon, meters), LAMBDA bbox :
        IF sparse > 0
        THEN [visited |-> NearbyTiles(c, Sparse(bbox, sparse), 1, <<>>, cursor,
                                      center, meters, minZ, maxZ, goOn),
              ncursor |-> 0]
        ELSE Bind(geoSearch(c, cursor,
                            BBox([bbox.Min EXCEPT !.Z = minZ],
                                 [bbox.Max EXCEPT !.Z = maxZ]),
                            {h \in c.index : ObjNearby(c.heap[h].object, center, meters)},
                            FALSE, goOn, <<>>), LAMBDA r :
                 [visited |-> r.visited, ncursor |-> r.i])))

RECURSIVE WithinTiles(_, _, _, _, _, _, _)
\* Within: for _, bbox := range bboxes { ... }: with a target, the search
\* refined by o.Within(obj), and then, target or not, the search refined by
\* o.WithinBBox(bbox).
WithinTiles(c, bboxes, k, visited, cursor, obj, goOn) ==
    IF k > Len(bboxes) \/ ~Evaluated(visited) THEN visited
    ELSE
    Bind(IF obj # NilObject
         THEN geoSearch(c, cursor, bboxes[k], {h \in c.index : ObjWithin(c.heap[h].object, obj)},
                        TRUE, goOn, visited).visited
         ELSE visited, LAMBDA v1 :
        WithinTiles(c, bboxes, k + 1,
                    geoSearch(c, cursor, bboxes[k], {h \in c.index : WithinBBox(c.heap[h].object, bboxes[k])},
                              TRUE, goOn, v1).visited,
                    cursor, obj, goOn))

\* The query bbox of Within.
WithinQueryBBox(obj, minLat, minLon, maxLat, maxLon, minZ, maxZ) ==
    IF obj # NilObject THEN CalculatedBBox(obj)
    ELSE BBox(Position(minLon, minLat, minZ), Position(maxLon, maxLat, maxZ))

WithinOp(c, cursor, sparse, obj, minLat, minLon, maxLat, maxLon, minZ, maxZ, goOn) ==
    Bind(WithinQueryBBox(obj, minLat, minLon, maxLat, maxLon, minZ, maxZ), LAMBDA bbox :
        IF sparse > 0
        THEN [visited |-> WithinTiles(c, Sparse(bbox, sparse), 1, <<>>, cursor, obj, goOn),
              ncursor |-> 0]
        ELSE Bind(IF obj # NilObject
                  THEN geoSearch(c, cursor, bbox, {h \in c.index : ObjWithin(c.heap[h].object, obj)},
                                 FALSE, goOn, <<>>)
                  ELSE geoSearch(c, cursor, bbox, {h \in c.index : WithinBBox(c.heap[h].object, bbox)},
                                 FALSE, goOn, <<>>), LAMBDA r :
                 [visited |-> r.visited, ncursor |-> r.i]))

RECURSIVE IntersectsTiles(_, _, _, _, _, _, _)
\* Intersects: for _, bbox := range bboxes { ... }
IntersectsTiles(c, bboxes, k, visited, cursor, obj, goOn) ==
    IF k > Len(bboxes) \/ ~Evaluated(visited) THEN visited
    ELSE
    Bind(IF obj # NilObject
         THEN geoSearch(c, cursor, bboxes[k], {h \in c.index : ObjIntersects(c.heap[h].object, obj)},
                        TRUE, goOn, visited).visited
         ELSE visited, LAMBDA v1 :
        IntersectsTiles(c, bboxes, k + 1,
                        geoSearch(c, cursor, bboxes[k],
                                  {h \in c.index : IntersectsBBox(c.heap[h].object, bboxes[k])},
                                  TRUE, goOn, v1).visited,
                        cursor, obj, goOn))

\* The query bbox of Intersects; the eighth parameter is maxZ, the ninth minZ.
IntersectsQueryBBox(obj, minLat, minLon, maxLat, maxLon, maxZ, minZ) ==
    IF obj # NilObject THEN CalculatedBBox(obj)
    ELSE BBox(Position(minLon, minLat, minZ), Position(maxLon, maxLat, maxZ))

IntersectsOp(c, cursor, sparse, obj, minLat, minLon, maxLat, maxLon, maxZ, minZ, goOn) ==
    Bind(IntersectsQueryBBox(obj, minLat, minLon, maxLat, maxLon, maxZ, minZ), LAMBDA bbox :
        IF sparse > 0
        THEN [visited |-> IntersectsTiles(c, Tiles(bbox, sparse, minZ, maxZ), 1, <<>>,
                                          cursor, obj, goOn),
              ncursor |-> 0]
        ELSE Bind(IF obj # NilObject
                  THEN geoSearch(c, cursor, bbox, {h \in c.index : ObjIntersects(c.heap[h].object, obj)},
                                 FALSE, goOn, <<>>)
                  ELSE geoSearch(c, cursor, bbox, {h \in c.index : IntersectsBBox(c.heap[h].object, bbox)},
                                 FALSE, goOn, <<>>), LAMBDA r :
                 [visited |-> r.visited, ncursor |-> r.i]))

\* ------------------------------------------------------------------ actions

\* The call leaves the collection as c.
SetCol(c) ==
    /\ items' = c.items
    /\ values' = c.values
    /\ index' = c.index
    /\ fieldMap' = c.fieldMap
    /\ weight' = c.weight
    /\ points' = c.points
    /\ objects' = c.objects
    /\ nobjects' = c.nobjects
    /\ heap' = c.heap

\* History of registrations: name appended on its first appearance.
Register(seq, name) == IF name \in SeqRange(seq) THEN seq ELSE Append(seq, name)
RECURSIVE RegisterAll(_, _, _)
RegisterAll(seq, names, n) ==
    IF n = 0 THEN seq ELSE Register(RegisterAll(seq, names, n - 1), names[n])
Min2(a, b) == IF a < b THEN a ELSE b

Init ==
    /\ items = New.items
    /\ values = New.values
    /\ index = New.index
    /\ fieldMap = New.fieldMap
    /\ weight = New.weight
    /\ points = New.points
    /\ objects = New.objects
    /\ nobjects = New.nobjects
    /\ heap = New.heap
    /\ panicked = FALSE
    /\ live = {}
    /\ firstSeen = <<>>

ReplaceOrInsert(id, obj, fields, fvalues) ==
    /\ ~panicked
    /\ \E r \in {ReplaceOrInsertOp(col, id, obj, fields, fvalues)} :
           /\ SetCol(r.c)
           /\ panicked' = r.panic
    /\ live' = live \cup {id}
    /\ firstSeen' = IF fields.nil /\ len(fvalues) > 0 THEN firstSeen
                    ELSE RegisterAll(firstSeen, fields.vals,
                                     Min2(Len(fields.vals), len(fvalues)))

Remove(id) ==
    /\ ~panicked
    /\ SetCol(RemoveOp(col, id).c)
    /\ live' = live \ {id}
    /\ UNCHANGED <<panicked, firstSeen>>

SetField(id, field, value) ==
    /\ ~panicked
    /\ SetCol(SetFieldOp(col, id, field, value).c)
    /\ firstSeen' = IF id \in live THEN Register(firstSeen, field) ELSE firstSeen
    /\ UNCHANGED <<panicked, live>>

MarshalJSON ==
    /\ ~panicked
    /\ MarshalJSONOp(col).kind = "json"
    /\ UNCHANGED vars

RowIds(portable, n) == {portable.Rows[k].Id : k \in 1..n}
RECURSIVE RegisterRows(_, _, _)
\* Registrations of the first n rows handed to ReplaceOrInsert.
RegisterRows(seq, portable, n) ==
    IF n = 0 THEN seq
    ELSE IF portable.Fields.nil /\ len(portable.Rows[n].Values) > 0
         THEN RegisterRows(seq, portable, n - 1)
         ELSE RegisterAll(RegisterRows(seq, portable, n - 1), portable.Fields.vals,
                          Min2(Len(portable.Fields.vals), len(portable.Rows[n].Values)))

UnmarshalJSON(b, spare) ==
    /\ ~panicked
    /\ \E r \in {UnmarshalJSONOp(col, b, spare)}, portable \in {UnmarshalPortable(b, spare)} :
           /\ SetCol(r.c)
           /\ panicked' = r.panic
           /\ live' = IF r.applied = 0 THEN live
                      ELSE live \cup RowIds(portable, r.applied)
           /\ firstSeen' = IF r.applied = 0 THEN firstSeen
                           ELSE RegisterRows(firstSeen, portable, r.applied)

Next ==
    \/ \E id \in Ids, obj \in Objects, a \in FieldArgs :
          ReplaceOrInsert(id, obj, a[1], a[2])
    \/ \E id \in Ids : Remove(id)
    \/ \E id \in Ids, field \in FieldNames, value \in Vals : SetField(id, field, value)
    \/ MarshalJSON
    \/ \E b \in Docs \cup {MarshalJSONOp(col)}, spare \in 0..MaxSpare : UnmarshalJSON(b, spare)

Spec == Init /\ [][Next]_vars

\* ------------------------------------------------------------------ scan and query calls

\* The finest tile is Cell wide; objects sit at 0, Cell and 2*Cell.
Cell == 2 ^ MaxSparse
ScanIds == {"a", "bb", "s"}
ScanObjects ==
    {PointObj(0, 0), PointObj(Cell, 0), PointObj(2 * Cell, 2 * Cell),
     StringOf("a"), StringOf("s")}
\* The iterators passed: one per set of ids on which it returns true.
Iterators == SUBSET ScanIds
\* Range endpoints and pivots.
Endpoints == SeqRange(StrOrder)
\* The target of Within and Intersects: the triangle x + y <= 2*Cell, or none.
Triangle ==
    PolygonObj({<<x, y>> \in (0..(2 * Cell)) \X (0..(2 * Cell)) : x + y <= 2 * Cell},
               BBox(Position(0, 0, 0), Position(2 * Cell, 2 * Cell, 0)))
Targets == {NilObject, Triangle}
\* Explicit boxes <<minLat, minLon, maxLat, maxLon>> and Z arguments.
QueryBoxes == {<<0, 0, 2 * Cell, 2 * Cell>>, <<0, 0, 0, 2 * Cell>>}
ZArgs == {<<0, 0>>, <<0, 1>>}
\* Nearby: <<lat, lon, meters>>.
Circles == {<<Cell, Cell, Cell>>, <<Cell, Cell, 2 * Cell>>}

Scan(cursor, desc, goOn) ==
    /\ ~panicked
    /\ ScanOp(col, cursor, desc, goOn).i \in Nat
    /\ UNCHANGED vars

ScanRange(cursor, start, end, desc, goOn) ==
    /\ ~panicked
    /\ ScanRangeOp(col, cursor, start, end, desc, goOn).i \in Nat
    /\ UNCHANGED vars

SearchValues(cursor, desc, goOn) ==
    /\ ~panicked
    /\ SearchValuesOp(col, cursor, desc, goOn).i \in Nat
    /\ UNCHANGED vars

SearchValuesRange(cursor, start, end, desc, goOn) ==
    /\ ~panicked
    /\ SearchValuesRangeOp(col, cursor, start, end, desc, goOn).i \in Nat
    /\ UNCHANGED vars

ScanGreaterOrEqual(id, cursor, desc, goOn) ==
    /\ ~panicked
    /\ ScanGreaterOrEqualOp(col, id, cursor, desc, goOn).i \in Nat
    /\ UNCHANGED vars

Nearby(cursor, sparse, lat, lon, meters, minZ, maxZ, goOn) ==
    /\ ~panicked
    /\ NearbyOp(col, cursor, sparse, lat, lon, meters, minZ, maxZ, goOn).ncursor \in Nat
    /\ UNCHANGED vars

Within(cursor, sparse, obj, minLat, minLon, maxLat, maxLon, minZ, maxZ, goOn) ==
    /\ ~panicked
    /\ WithinOp(col, cursor, sparse, obj, minLat, minLon, maxLat, maxLon,
                minZ, maxZ, goOn).ncursor \in Nat
    /\ UNCHANGED vars

Intersects(cursor, sparse, obj, minLat, minLon, maxLat, maxLon, maxZ, minZ, goOn) ==
    /\ ~panicked
    /\ IntersectsOp(col, cursor, sparse, obj, minLat, minLon, maxLat, maxLon,
                    maxZ, minZ, goOn).ncursor \in Nat
    /\ UNCHANGED vars

ScanNext ==
    \/ \E id \in ScanIds, obj \in ScanObjects :
          ReplaceOrInsert(id, obj, NilNames, NilSlice)
    \/ \E id \in ScanIds : Remove(id)
    \/ \E cursor \in 0..MaxCursor, desc \in BOOLEAN, goOn \in Iterators :
          Scan(cursor, desc, goOn)
    \/ \E cursor \in 0..MaxCursor, start \in Endpoints, end \in Endpoints,
          desc \in BOOLEAN, goOn \in Iterators :
          ScanRange(cursor, start, end, desc, goOn)
    \/ \E cursor \in 0..MaxCursor, desc \in BOOLEAN, goOn \in Iterators :
          SearchValues(cursor, desc, goOn)
    \/ \E cursor \in 0..MaxCursor, start \in Endpoints, end \in Endpoints,
          desc \in BOOLEAN, goOn \in Iterators :
          SearchValuesRange(cursor, start, end, desc, goOn)
    \/ \E id \in Endpoints, cursor \in 0..MaxCursor, desc \in BOOLEAN, goOn \in Iterators :
          ScanGreaterOrEqual(id, cursor, desc, goOn)
    \/ \E cursor \in 0..MaxGeoCursor, sparse \in 0..MaxSparse, circle \in Circles,
          z \in ZArgs, goOn \in Iterators :
          Nearby(cursor, sparse, circle[1], circle[2], circle[3], z[1], z[2], goOn)
    \/ \E cursor \in 0..MaxGeoCursor, sparse \in 0..MaxSparse, obj \in Targets,
          box \in QueryBoxes, z \in ZArgs, goOn \in Iterators :
          Within(cursor, sparse, obj, box[1], box[2], box[3], box[4], z[1], z[2], goOn)
    \/ \E cursor \in 0..MaxGeoCursor, sparse \in 0..MaxSparse, obj \in Targets,
          box \in QueryBoxes, z \in ZArgs, goOn \in Iterators :
          Intersects(cursor, sparse, obj, box[1], box[2], box[3], box[4], z[1], z[2], goOn)

ScanSpec == Init /\ [][ScanNext]_vars

\* ------------------------------------------------------------------ properties

Max2(a, b) == IF a > b THEN a ELSE b
\* v followed by zeros up to length n.
Pad(v, n) == [k \in 1..n |-> IF k <= Len(v) THEN v[k] ELSE 0]
\* The ids of the entries of the id-ordered tree.
EntryIds(c) == {c.heap[c.items[k]].id : k \in 1..Len(c.items)}
\* The field vector stored for id.
FieldsOf(c, id) == get(c, id).fields.vals

\* C1: after every sequence of calls the id-ordered tree holds exactly one
\* entry per live id and no other entry, and Count() = objects + nobjects =
\* the number of entries of the id-ordered tree.
C1_OneEntryPerLiveId ==
    /\ Count(col) = objects + nobjects
    /\ Count(col) = Len(items)
    /\ EntryIds(col) = live
    /\ \A id \in Ids :
          Cardinality({k \in 1..Len(items) : heap[items[k]].id = id})
              = IF id \in live THEN 1 ELSE 0

\* Both ids were inserted and "a" was removed after both fields were registered.
C1_Witness ==
    /\ live = {"bb"}
    /\ Len(items) = 1
    /\ Count(col) = 1
    /\ DOMAIN fieldMap = FieldNames

RECURSIVE SumWeight(_, _)
\* Sum over the first k entries of object.Weight() + len(id) + 8*len(fields).
SumWeight(c, k) ==
    IF k = 0 THEN 0
    ELSE SumWeight(c, k - 1) + Weight(c.heap[c.items[k]].object)
         + StrLen(c.heap[c.items[k]].id) + 8 * len(c.heap[c.items[k]].fields)
RECURSIVE SumPoints(_, _)
\* Sum over the first k entries of object.PositionCount().
SumPoints(c, k) ==
    IF k = 0 THEN 0
    ELSE SumPoints(c, k - 1) + PositionCount(c.heap[c.items[k]].object)

\* C2: after every sequence of calls weight is the sum over the items of
\* object.Weight() + len(id) + 8*len(fields), and points is the sum over the
\* items of object.PositionCount().
C2_CountersRecomputed ==
    /\ weight = SumWeight(col, Len(items))
    /\ points = SumPoints(col, Len(items))

\* Two items, a geometry and a string, with field vectors of different lengths.
C2_Witness ==
    /\ Len(items) = 2
    /\ objects = 1
    /\ nobjects = 1
    /\ len(heap[items[1]].fields) = 2
    /\ len(heap[items[2]].fields) = 1
    /\ weight = SumWeight(col, 2)
    /\ points = 3

\* C3: every live item is in exactly one secondary index, the spatial index
\* iff its object IsGeometry() and the value-ordered tree iff it is not, and
\* neither secondary index holds an item that is not live.
C3_OneSecondaryIndex ==
    /\ EntryIds(col) = live
    /\ \A h \in SeqRange(items) :
          /\ h \in index <=> IsGeometry(heap[h].object)
          /\ h \in SeqRange(values) <=> ~IsGeometry(heap[h].object)
    /\ index \subseteq SeqRange(items)
    /\ SeqRange(values) \subseteq SeqRange(items)
    /\ Cardinality(SeqRange(values)) = Len(values)

\* "a" holds a geometry and "bb" a string, and replacing the geometry of "a"
\* by a string moves "a" from the spatial index to the value-ordered tree.
C3_Witness ==
    /\ get(col, "a").obj = FeatureObj
    /\ get(col, "bb").obj = StringObj
    /\ Cardinality(index) = 1
    /\ Len(values) = 1
    /\ \E r \in {ReplaceOrInsertOp(col, "a", StringObj, NilNames, NilSlice)} :
          /\ r.oldObject = FeatureObj
          /\ r.c.index = {}
          /\ Len(r.c.values) = 2

\* Observational equality: same Count, same object per id, same field vector
\* per id up to zero-padding to a common length, same FieldArr().
ObsEqual(c1, c2) ==
    /\ Count(c1) = Count(c2)
    /\ \A id \in Ids :
          /\ get(c1, id).ok = get(c2, id).ok
          /\ get(c1, id).obj = get(c2, id).obj
          /\ Pad(FieldsOf(c1, id), MaxLen + 1) = Pad(FieldsOf(c2, id), MaxLen + 1)
    /\ FieldArr(c1) = FieldArr(c2)

\* C4: for every reachable collection, MarshalJSON followed by UnmarshalJSON
\* into a fresh collection completes without error and yields a collection
\* observationally equal to the original.
C4_RoundTrip ==
    ~panicked =>
        \A spare \in 0..MaxSpare :
            \A r \in {UnmarshalJSONOp(New, MarshalJSONOp(col), spare)} :
                /\ ~r.panic
                /\ r.err = ""
                /\ ObsEqual(col, r.c)

\* C5: ReplaceOrInsert on an existing id returns as oldFields the field
\* vector the item had immediately before the call, slot by slot.
C5_OldFieldsIsPriorVector ==
    \A id \in Ids, obj \in Objects, a \in FieldArgs :
        get(col, id).ok =>
            \A r \in {ReplaceOrInsertOp(col, id, obj, a[1], a[2])} :
                ~r.panic => r.oldFields.vals = FieldsOf(col, id)

RECURSIVE Overwrite(_, _, _, _, _)
\* vec zero-extended to cover slot[names[i]], that slot set to vals[i], for
\* i, i+1, ... in order.
Overwrite(vec, slot, names, vals, i) ==
    IF i > Len(names) THEN vec
    ELSE Overwrite([Pad(vec, Max2(Len(vec), slot[names[i]] + 1))
                        EXCEPT ![slot[names[i]] + 1] = vals[i]],
                   slot, names, vals, i + 1)

\* C6: ReplaceOrInsert with as many values as names returns, and stores, the
\* old item's field vector (empty on a new id) zero-extended to cover every
\* named slot with slot(n[i]) overwritten by v[i] in order; with no names and
\* no values the vector is the old one unchanged.
C6_InheritThenOverwrite ==
    \A id \in Ids, obj \in Objects, a \in FieldArgs :
        Len(a[1].vals) = len(a[2]) =>
            \A r \in {ReplaceOrInsertOp(col, id, obj, a[1], a[2])} :
                /\ ~r.panic
                /\ r.newFields.vals =
                      Overwrite(FieldsOf(col, id), r.c.fieldMap, a[1].vals, a[2].vals, 1)
                /\ FieldsOf(r.c, id) = r.newFields.vals
                /\ (~get(col, id).ok /\ Len(a[1].vals) = 0) => r.newFields.vals = <<>>

\* "a" holds <<1>>; writing g then f extends the vector by a zero slot,
\* overwrites slot 0 and gives <<0, 1>>; with no names the vector stays <<1>>.
C6_Witness ==
    /\ FieldsOf(col, "a") = <<1>>
    /\ DOMAIN fieldMap = FieldNames
    /\ fieldMap["f"] = 0
    /\ ReplaceOrInsertOp(col, "a", StringObj, Names(<<"g", "f">>),
                         Slice(<<1, 0>>, 2)).newFields.vals = <<0, 1>>
    /\ ReplaceOrInsertOp(col, "a", StringObj, NilNames, NilSlice).newFields.vals = <<1>>

\* C7: ReplaceOrInsert with an empty name list, nil or zero-length, and a
\* non-empty values list sets the item's field vector to exactly the values.
C7_EmptyNamesAdoptValues ==
    \A id \in Ids, obj \in Objects, a \in FieldArgs :
        (Len(a[1].vals) = 0 /\ len(a[2]) > 0) =>
            \A r \in {ReplaceOrInsertOp(col, id, obj, a[1], a[2])} :
                /\ ~r.panic
                /\ r.newFields.vals = a[2].vals
                /\ FieldsOf(r.c, id) = a[2].vals

\* The registry maps the names registered so far one-to-one onto [0, n), each
\* to the number of names registered before it, and FieldArr() lists them by
\* slot.
RegistryInOrder ==
    /\ DOMAIN fieldMap = SeqRange(firstSeen)
    /\ Cardinality(DOMAIN fieldMap) = Len(firstSeen)
    /\ \A i \in 1..Len(firstSeen) : fieldMap[firstSeen[i]] = i - 1
    /\ {fieldMap[f] : f \in DOMAIN fieldMap} = 0..(Cardinality(DOMAIN fieldMap) - 1)
    /\ FieldArr(col) = firstSeen
\* A step keeps every assigned slot.
SlotsKept ==
    \A f \in DOMAIN fieldMap : f \in DOMAIN fieldMap' /\ fieldMap'[f] = fieldMap[f]

\* C8: the field registry is a bijection between the registered names and
\* [0, n), the slot of a name is the number of names registered before its
\* first appearance, no step changes an assigned slot, and FieldArr()[i] is
\* the name whose slot is i.
C8_RegistryBijection == [](RegistryInOrder) /\ [][SlotsKept]_vars

\* g was registered before f, and no item is left.
C8_Witness ==
    /\ firstSeen = <<"g", "f">>
    /\ fieldMap["g"] = 0
    /\ fieldMap["f"] = 1
    /\ FieldArr(col) = <<"g", "f">>
    /\ live = {}

\* C9: for an existing id SetField returns updated = (prior value of the
\* slot # value), a slot beyond the end of the vector counting as 0; the
\* vector then covers the slot, the slot holds value, every other new slot
\* holds 0 and every other old slot is unchanged.
C9_SetFieldResult ==
    \A id \in Ids, field \in FieldNames, value \in Vals :
        get(col, id).ok =>
            \A r \in {SetFieldOp(col, id, field, value)},
               old \in {FieldsOf(col, id)} :
                \A slot \in {r.c.fieldMap[field]} :
                    /\ r.ok
                    /\ r.updated = ((IF slot < Len(old) THEN old[slot + 1] ELSE 0) # value)
                    /\ Len(r.fields.vals) = Max2(Len(old), slot + 1)
                    /\ r.fields.vals[slot + 1] = value
                    /\ \A k \in 1..Len(r.fields.vals) :
                          k # slot + 1 =>
                              r.fields.vals[k] = IF k <= Len(old) THEN old[k] ELSE 0
                    /\ FieldsOf(r.c, id) = r.fields.vals

\* "a" has no fields and g has slot 1: writing 0 to g extends the vector to
\* <<0, 0>> and reports no update; writing 1 gives <<0, 1>> and an update.
C9_Witness ==
    /\ get(col, "a").ok
    /\ FieldsOf(col, "a") = <<>>
    /\ DOMAIN fieldMap = FieldNames
    /\ fieldMap["g"] = 1
    /\ ~SetFieldOp(col, "a", "g", 0).updated
    /\ SetFieldOp(col, "a", "g", 0).fields.vals = <<0, 0>>
    /\ SetFieldOp(col, "a", "g", 1).updated
    /\ SetFieldOp(col, "a", "g", 1).fields.vals = <<0, 1>>

\* The documents with no top-level fields member.
NoFieldsDocs == {b \in Docs : b.kind = "json" /\ b.fields = JAbsent}
\* The rows of a document.
DocRows(b) == IF b.rows.j = "array" THEN b.rows.elems ELSE <<>>

Consistent(c) ==
    /\ Count(c) = Len(c.items)
    /\ c.weight = SumWeight(c, Len(c.items))
    /\ c.points = SumPoints(c, Len(c.items))
    /\ \A h \in SeqRange(c.items) :
          /\ h \in c.index <=> IsGeometry(c.heap[h].object)
          /\ h \in SeqRange(c.values) <=> ~IsGeometry(c.heap[h].object)
    /\ c.index \subseteq SeqRange(c.items)
    /\ SeqRange(c.values) \subseteq SeqRange(c.items)
\* Documents with a row whose obj does not parse: those of Docs, and one
\* whose first row is the bad one.
BadRowDocs ==
    {b \in Docs : b.kind = "json" /\ b.rows.j = "array"
                  /\ \E k \in 1..Len(b.rows.elems) :
                        b.rows.elems[k].obj = JBase64(GarbageObjBytes)}
    \cup {JsonDoc(JArray(<<JsonRow("bb", JBase64(GarbageObjBytes), JNull),
                           FeatureRow("a", JArray(<<1>>))>>),
                  JArray(<<"f">>))}
\* The index of the first row of portable whose obj does not parse.
FirstBadRow(portable) ==
    MinOf({k \in 1..Len(portable.Rows) : ObjectAuto(portable.Rows[k].Obj).err # ""})
RECURSIVE ApplyRows(_, _, _)
\* c after ReplaceOrInsert of the first n rows of portable, in order.
ApplyRows(c, portable, n) ==
    IF n = 0 THEN c
    ELSE ReplaceOrInsertOp(ApplyRows(c, portable, n - 1), portable.Rows[n].Id,
                           ObjectAuto(portable.Rows[n].Obj).obj, portable.Fields,
                           portable.Rows[n].Values).c

\* C11: when UnmarshalJSON meets its first unparseable obj at row k it
\* returns the error, processes no later row, and leaves the collection as
\* its prior contents with rows 0..k-1 applied by ReplaceOrInsert in order;
\* the counters and indexes agree in that partial state.
C11_PartialDecode ==
    \A b \in BadRowDocs :
        \A r \in {UnmarshalJSONOp(col, b, 0)}, portable \in {UnmarshalPortable(b, 0)} :
            \A k \in {FirstBadRow(portable)} :
                /\ ~r.panic
                /\ r.err # ""
                /\ r.applied = k - 1
                /\ r.c = ApplyRows(col, portable, k - 1)
                /\ EntryIds(r.c) = EntryIds(col) \cup RowIds(portable, k - 1)
                /\ Consistent(r.c)

\* "bb" is stored with a field and "a" is absent: the document whose second
\* row is bad inserts "a" with <<1>>, reports the error and leaves "bb".
C11_Witness ==
    /\ ~get(col, "a").ok
    /\ FieldsOf(col, "bb") = <<1>>
    /\ \E b \in BadRowDocs :
          \E r \in {UnmarshalJSONOp(col, b, 0)} :
              /\ r.err # ""
              /\ r.applied = 1
              /\ FieldsOf(r.c, "a") = <<1>>
              /\ FieldsOf(r.c, "bb") = <<1>>
              /\ Count(r.c) = 2

\* The ids of the entries of a tree, in order.
IdsOf(c, tree) == [k \in 1..Len(tree) |-> c.heap[tree[k]].id]
\* log is the part of order that starts after the first skip elements and
\* ends with the first id outside goOn, or with order.
StopsAtFirstFalse(log, order, skip, goOn) ==
    /\ skip + Len(log) <= Len(order)
    /\ \A k \in 1..Len(log) : log[k] = order[skip + k]
    /\ \A k \in 1..(Len(log) - 1) : log[k] \in goOn
    /\ \/ skip + Len(log) = Len(order) /\ (Len(log) > 0 => log[Len(log)] \in goOn)
       \/ Len(log) > 0 /\ log[Len(log)] \notin goOn

\* C12: Scan never invokes visit on the first cursor items of the traversal
\* and returns the number of items skipped plus the number visited; with
\* cursor > Count it visits nothing and returns Count; a Scan from the
\* returned cursor starts at the first item not yet visited.
C12_ScanCursor ==
    \A cursor \in 0..MaxCursor, desc \in BOOLEAN, goOn \in Iterators :
        \A r \in {ScanOp(col, cursor, desc, goOn)},
           order \in {IF desc THEN Reverse(IdsOf(col, items)) ELSE IdsOf(col, items)} :
            \A skip \in {Min2(cursor, Len(order))} :
                /\ StopsAtFirstFalse(r.visited, order, skip, goOn)
                /\ r.i = skip + Len(r.visited)
                /\ cursor > Count(col) => (r.visited = <<>> /\ r.i = Count(col))
                /\ r.i <= MaxCursor =>
                      \A again \in {ScanOp(col, r.i, desc, ScanIds)} :
                          again.visited = SubSeq(order, r.i + 1, Len(order))

\* Three items: ascending from cursor 1 with an iterator that stops at "bb"
\* visits "bb" only and returns 2; cursor 4 visits nothing and returns 3.
C12_Witness ==
    /\ Count(col) = 3
    /\ ScanOp(col, 1, FALSE, {"a", "s"}) = [visited |-> <<"bb">>, i |-> 2]
    /\ ScanOp(col, 2, FALSE, {"a", "s"}).visited = <<"s">>
    /\ ScanOp(col, 1, TRUE, ScanIds).visited = <<"bb", "a">>
    /\ ScanOp(col, 4, FALSE, ScanIds) = [visited |-> <<>>, i |-> 3]

\* seq up to and including its first element in S; all of seq if none.
UntilIn(seq, S) ==
    IF \E k \in 1..Len(seq) : seq[k] \in S
    THEN SubSeq(seq, 1, MinOf({k \in 1..Len(seq) : seq[k] \in S}))
    ELSE seq
RECURSIVE Flatten(_, _)
\* The concatenation of the first n sequences of seqs.
Flatten(seqs, n) == IF n = 0 THEN <<>> ELSE Flatten(seqs, n - 1) \o seqs[n]
\* The entries the index hands over for bbox after the first cursor ones
\* whose object satisfies Refine, as ids.
RefinedAfter(c, bbox, cursor, Refine(_)) ==
    IdsOf(c, SelectEntries(SubSeq(SearchEntries(c, bbox), cursor + 1,
                                  Len(SearchEntries(c, bbox))),
                           LAMBDA h : Refine(c.heap[h].object)))
\* bbox with the Z bounds given.
WithZ(bbox, minZ, maxZ) ==
    BBox([bbox.Min EXCEPT !.Z = minZ], [bbox.Max EXCEPT !.Z = maxZ])
\* The log of a sparse Nearby: tile by tile, the refined entries up to the
\* first on which the iterator returns true.
SparseNearbyLog(c, cursor, sparse, lat, lon, meters, minZ, maxZ, goOn) ==
    Bind(Sparse(BBoxesFromCenter(lat, lon, meters), sparse), LAMBDA tiles :
        Flatten([t \in 1..Len(tiles) |->
                    UntilIn(RefinedAfter(c, WithZ(tiles[t], minZ, maxZ), cursor,
                                LAMBDA o : ObjNearby(o, Position(lon, lat, 0), meters)),
                            goOn)],
                Len(tiles)))
\* The log of a sparse Within over the tiles given: per tile the search
\* refined by the target, if there is one, then the search refined by the tile.
SparseWithinLog(c, tiles, cursor, obj, goOn) ==
    Flatten([t \in 1..Len(tiles) |->
                (IF obj # NilObject
                 THEN UntilIn(RefinedAfter(c, tiles[t], cursor,
                                           LAMBDA o : ObjWithin(o, obj)), goOn)
                 ELSE <<>>)
                \o UntilIn(RefinedAfter(c, tiles[t], cursor,
                                        LAMBDA o : WithinBBox(o, tiles[t])), goOn)],
            Len(tiles))
\* The same for Intersects.
SparseIntersectsLog(c, tiles, cursor, obj, goOn) ==
    Flatten([t \in 1..Len(tiles) |->
                (IF obj # NilObject
                 THEN UntilIn(RefinedAfter(c, tiles[t], cursor,
                                           LAMBDA o : ObjIntersects(o, obj)), goOn)
                 ELSE <<>>)
                \o UntilIn(RefinedAfter(c, tiles[t], cursor,
                                        LAMBDA o : IntersectsBBox(o, tiles[t])), goOn)],
            Len(tiles))
\* No visit follows a visit on which the iterator returned true.
NoVisitAfterTrue(log, goOn) == \A k \in 1..(Len(log) - 1) : log[k] \notin goOn

C14_SparseSearchesFromZero ==
    \A cursor \in 0..MaxGeoCursor, sparse \in 1..MaxSparse, z \in ZArgs, goOn \in Iterators :
        /\ \A circle \in Circles :
              NearbyOp(col, cursor, sparse, circle[1], circle[2], circle[3],
                       z[1], z[2], goOn).visited
                  = NearbyOp(col, 0, sparse, circle[1], circle[2], circle[3],
                             z[1], z[2], goOn).visited
        /\ \A obj \in Targets, box \in QueryBoxes :
              /\ WithinOp(col, cursor, sparse, obj, box[1], box[2], box[3], box[4],
                          z[1], z[2], goOn).visited
                    = WithinOp(col, 0, sparse, obj, box[1], box[2], box[3], box[4],
                               z[1], z[2], goOn).visited
              /\ IntersectsOp(col, cursor, sparse, obj, box[1], box[2], box[3], box[4],
                              z[1], z[2], goOn).visited
                    = IntersectsOp(col, 0, sparse, obj, box[1], box[2], box[3], box[4],
                                   z[1], z[2], goOn).visited

\* C15: in Within and Intersects, with sparse == 0 and with sparse > 0, when
\* a target is given visit is invoked only on items o with o.Within(target)
\* (resp. o.Intersects(target)).
C15_TargetIsTheOnlyRefinement ==
    \A cursor \in 0..MaxGeoCursor, sparse \in 0..MaxSparse, z \in ZArgs, goOn \in Iterators,
       obj \in Targets \ {NilObject}, box \in QueryBoxes :
        /\ \A w \in {WithinOp(col, cursor, sparse, obj, box[1], box[2], box[3], box[4],
                              z[1], z[2], goOn).visited} :
              \A k \in 1..Len(w) : ObjWithin(get(col, w[k]).obj, obj)
        /\ \A x \in {IntersectsOp(col, cursor, sparse, obj, box[1], box[2], box[3], box[4],
                                  z[1], z[2], goOn).visited} :
              \A k \in 1..Len(x) : ObjIntersects(get(col, x[k]).obj, obj)

\* No visit follows a visit on which the iterator returned false.
NoVisitAfterFalse(log, goOn) == \A k \in 1..(Len(log) - 1) : log[k] \in goOn

\* C16: in Scan, ScanRange, ScanGreaterOrEqual, SearchValues,
\* SearchValuesRange and the non-sparse Nearby, Within and Intersects, once
\* visit returns false it is not invoked again during that call.
C16_FalseStopsTraversal ==
    \A desc \in BOOLEAN, goOn \in Iterators :
        /\ \A cursor \in 0..MaxCursor :
              /\ NoVisitAfterFalse(ScanOp(col, cursor, desc, goOn).visited, goOn)
              /\ NoVisitAfterFalse(SearchValuesOp(col, cursor, desc, goOn).visited, goOn)
              /\ \A id \in ScanIds :
                    NoVisitAfterFalse(
                        ScanGreaterOrEqualOp(col, id, cursor, desc, goOn).visited, goOn)
        /\ \A cursor \in 0..MaxGeoCursor, start \in Endpoints, end \in Endpoints :
              /\ NoVisitAfterFalse(
                    ScanRangeOp(col, cursor, start, end, desc, goOn).visited, goOn)
              /\ NoVisitAfterFalse(
                    SearchValuesRangeOp(col, cursor, start, end, desc, goOn).visited, goOn)
        /\ \A cursor \in 0..MaxGeoCursor, z \in ZArgs :
              /\ \A circle \in Circles :
                    NoVisitAfterFalse(NearbyOp(col, cursor, 0, circle[1], circle[2],
                                               circle[3], z[1], z[2], goOn).visited, goOn)
              /\ \A obj \in Targets, box \in QueryBoxes :
                    /\ NoVisitAfterFalse(
                          WithinOp(col, cursor, 0, obj, box[1], box[2], box[3], box[4],
                                   z[1], z[2], goOn).visited, goOn)
                    /\ NoVisitAfterFalse(
                          IntersectsOp(col, cursor, 0, obj, box[1], box[2], box[3], box[4],
                                       z[1], z[2], goOn).visited, goOn)

\* Two points in the box: an iterator that returns false on "a" is invoked
\* on "a" alone, by Scan and by the non-sparse Within, Intersects and Nearby,
\* although "bb" follows and is visited when the iterator returns true.
C16_Witness ==
    /\ get(col, "a").obj = PointObj(0, 0)
    /\ get(col, "bb").obj = PointObj(Cell, 0)
    /\ ScanOp(col, 0, FALSE, {"bb"}).visited = <<"a">>
    /\ ScanOp(col, 0, FALSE, ScanIds).visited[2] = "bb"
    /\ WithinOp(col, 0, 0, NilObject, 0, 0, 2 * Cell, 2 * Cell, 0, 0, {"bb"}).visited
          = <<"a">>
    /\ WithinOp(col, 0, 0, NilObject, 0, 0, 2 * Cell, 2 * Cell, 0, 0, ScanIds).visited
          = <<"a", "bb">>
    /\ IntersectsOp(col, 0, 0, Triangle, 0, 0, 2 * Cell, 2 * Cell, 0, 0, {"bb"}).visited
          = <<"a">>
    /\ NearbyOp(col, 0, 0, Cell, Cell, 2 * Cell, 0, 0, {"bb"}).visited = <<"a">>

\* The ids of the live non-geometry items whose String() value satisfies Keep.
ValueIds(c, Keep(_)) ==
    {id \in ScanIds : /\ get(c, id).ok
                      /\ ~IsGeometry(get(c, id).obj)
                      /\ Keep(String(get(c, id).obj))}

\* C17: with cursor 0, SearchValuesRange ascending visits exactly the
\* non-geometry items whose value v satisfies start <= v < end, and
\* descending exactly those with end < v <= start.
C17_ValueRangeBounds ==
    \A start \in Endpoints, end \in Endpoints :
        /\ SeqRange(SearchValuesRangeOp(col, 0, start, end, FALSE, ScanIds).visited)
              = ValueIds(col, LAMBDA v : ~StrLess(v, start) /\ StrLess(v, end))
        /\ SeqRange(SearchValuesRangeOp(col, 0, start, end, TRUE, ScanIds).visited)
              = ValueIds(col, LAMBDA v : StrLess(end, v) /\ ~StrLess(start, v))

\* Every item of the id-ordered tree has at most len(fieldMap) field slots.
FieldsWithinRegistry(c) ==
    \A k \in 1..Len(c.items) :
        len(c.heap[c.items[k]].fields) <= Cardinality(DOMAIN c.fieldMap)

\* C18 as stated: in every reachable state each live item's field vector is
\* no longer than the field registry.
C18_FieldsWithinRegistry == FieldsWithinRegistry(col)

\* C18: the calls that map names to slots keep every field vector within the
\* registry: from a state where no vector is longer than the registry,
\* SetField, Remove and every ReplaceOrInsert other than the direct one
\* (nil names with values) lead to such a state again.
C18_NamedWritesStayWithinRegistry ==
    FieldsWithinRegistry(col) =>
        /\ \A id \in Ids, field \in FieldNames, value \in Vals :
              FieldsWithinRegistry(SetFieldOp(col, id, field, value).c)
        /\ \A id \in Ids : FieldsWithinRegistry(RemoveOp(col, id).c)
        /\ \A id \in Ids, obj \in Objects, a \in FieldArgs :
              ~(a[1].nil /\ len(a[2]) > 0) =>
                  FieldsWithinRegistry(ReplaceOrInsertOp(col, id, obj, a[1], a[2]).c)

\* Both names are registered and a live item fills both slots; a further
\* SetField of it and a ReplaceOrInsert with a name keep the two slots.
C18_Witness ==
    /\ FieldsWithinRegistry(col)
    /\ Cardinality(DOMAIN fieldMap) = 2
    /\ \E id \in Ids :
          /\ get(col, id).ok
          /\ Len(FieldsOf(col, id)) = 2
          /\ len(SetFieldOp(col, id, "g", 1).fields) = 2
          /\ len(ReplaceOrInsertOp(col, id, StringObj, Names(<<"f">>),
                                   Slice(<<1>>, 1)).newFields) = 2

\* C19: SetField and Remove on an id that is not in the collection report
\* not-found and leave the whole state unchanged: the three indexes, every
\* field vector, the counters and the field registry.
C19_AbsentIdLeavesState ==
    \A id \in Ids :
        ~get(col, id).ok =>
            /\ RemoveOp(col, id) =
                  [c |-> col, obj |-> NilObject, fields |-> NilSlice, ok |-> FALSE]
            /\ \A field \in FieldNames, value \in Vals :
                  SetFieldOp(col, id, field, value) =
                      [c |-> col, obj |-> NilObject, fields |-> NilSlice,
                       updated |-> FALSE, ok |-> FALSE]

\* "a" is stored with a value in slot "f", "bb" is not stored and "g" has no
\* slot: SetField("bb", "g", 1) reports not-found and "g" still has no slot;
\* Remove("bb") reports not-found and "a" is still counted.
C19_Witness ==
    /\ get(col, "a").ok
    /\ ~get(col, "bb").ok
    /\ DOMAIN fieldMap = {"f"}
    /\ FieldsOf(col, "a") = <<1>>
    /\ ~SetFieldOp(col, "bb", "g", 1).ok
    /\ DOMAIN SetFieldOp(col, "bb", "g", 1).c.fieldMap = {"f"}
    /\ ~RemoveOp(col, "bb").ok
    /\ Count(RemoveOp(col, "bb").c) = 1

\* C20: with no target and sparse == 0, Within and Intersects called with the
\* same positional arguments search the index with the same query bounding
\* box, whose Min.Z is the first Z argument and whose Max.Z is the second.
C20_SameZOrder ==
    \A box \in QueryBoxes, z \in ZArgs :
        \A w \in {WithinQueryBBox(NilObject, box[1], box[2], box[3], box[4], z[1], z[2])},
           x \in {IntersectsQueryBBox(NilObject, box[1], box[2], box[3], box[4],
                                      z[1], z[2])} :
            /\ SearchEntries(col, w) = SearchEntries(col, x)
            /\ w = x
            /\ x.Min.Z = z[1]
            /\ x.Max.Z = z[2]

\* No id occurs twice in the log.
NoRepeat(log) == \A j \in 1..Len(log), k \in 1..Len(log) : log[j] = log[k] => j = k

\* C21: within one call of Nearby, Within or Intersects, for any sparse level
\* and with or without a target, visit is invoked at most once per stored
\* item.
C21_VisitAtMostOnce ==
    \A cursor \in 0..MaxGeoCursor, sparse \in 0..MaxSparse, z \in ZArgs, goOn \in Iterators :
        /\ \A circle \in Circles :
              NoRepeat(NearbyOp(col, cursor, sparse, circle[1], circle[2], circle[3],
                                z[1], z[2], goOn).visited)
        /\ \A obj \in Targets, box \in QueryBoxes :
              /\ NoRepeat(WithinOp(col, cursor, sparse, obj, box[1], box[2], box[3],
                                   box[4], z[1], z[2], goOn).visited)
              /\ NoRepeat(IntersectsOp(col, cursor, sparse, obj, box[1], box[2], box[3],
                                       box[4], z[1], z[2], goOn).visited)

====
